---- MODULE Spec2Model ----
(***************************************************************************)
(* A model of knotes.py: the top-level statements of the script, the       *)
(* TaskRepository / TaskService / Task classes, the start_application      *)
(* command-line loop, and the unit test test_add_task.                     *)
(*                                                                         *)
(* Python values are records with a "type" field.  Text is a TLA+ string.  *)
(* A method call is an operator that yields the object after the call      *)
(* (self), the value returned (ret) and, for the service, the repository   *)
(* calls it made (calls).                                                  *)
(***************************************************************************)
EXTENDS Integers, Sequences, FiniteSets, TLC

\* ------------------------------------------------------------------ bounds
MaxInputs == 3      \* lines available on standard input before end of file
MaxCalls == 3       \* service calls made by a direct client of TaskService

\* --------------------------------------------------------------- constants
TASK_MAX_LENGTH == 100

\* ------------------------------------------------------------ Python values
NoneVal == [type |-> "NoneType"]
Str(s) == [type |-> "str", value |-> s]
List(items) == [type |-> "list", items |-> items]
Exception(kind, line) == [type |-> kind, line |-> line]

\* len(v) and "for x in v" are defined for lists and strings only; on any
\* other value (None included) Python raises TypeError.
Sized(v) == v.type \in {"list", "str"}
Items(v) ==
    IF v.type = "list" THEN v.items
    ELSE [i \in 1..Len(v.value) |-> Str(SubSeq(v.value, i, i))]
Contains(v, x) == \E i \in 1..Len(Items(v)) : Items(v)[i] = x

\* str(v) as used by the f-string "- {task}".
Format(v) ==
    IF v.type = "str" THEN v.value
    ELSE IF v.type = "NoneType" THEN "None"
    ELSE "<" \o v.type \o " object>"

Last(s) == s[Len(s)]

\* -------------------------------------------------- data_access.TaskRepository
TaskRepository == [type |-> "TaskRepository"]

get_tasks(self) == [self |-> self, ret |-> NoneVal]

save_task_storing(self, task) ==
    [self |-> [type |-> "TaskRepository", tasks |-> <<task>>], ret |-> NoneVal]

save_task(self, task) == [self |-> self, ret |-> NoneVal]

\* ------------------------------------------------- business_logic.TaskService
TaskService == [type |-> "TaskService", task_repository |-> TaskRepository]

RepoCall(op, arg, ret) == [op |-> op, arg |-> arg, ret |-> ret]

get_all_tasks_defaulting(self) ==
    LET r == get_tasks(self.task_repository)
        v == IF r.ret = NoneVal THEN List(<<>>) ELSE r.ret
    IN  [self  |-> [self EXCEPT !.task_repository = r.self],
         ret   |-> v,
         calls |-> <<RepoCall("get_tasks", NoneVal, r.ret)>>]

get_all_tasks(self) ==
    LET r == get_tasks(self.task_repository)
    IN  [self  |-> [self EXCEPT !.task_repository = r.self],
         ret   |-> r.ret,
         calls |-> <<RepoCall("get_tasks", NoneVal, r.ret)>>]

add_task(self, task) ==
    LET r == save_task(self.task_repository, task)
    IN  [self  |-> [self EXCEPT !.task_repository = r.self],
         ret   |-> NoneVal,
         calls |-> <<RepoCall("save_task", task, r.ret)>>]

\* -------------------------------------------------------- business_logic.Task
Task_truncating(title, description) ==
    [type |-> "Task", title |-> title,
     description |-> IF description.type = "str"
                        /\ Len(description.value) > TASK_MAX_LENGTH
                     THEN Str(SubSeq(description.value, 1, TASK_MAX_LENGTH))
                     ELSE description]

Task(title, description) ==
    [type |-> "Task", title |-> title, description |-> description]

\* ------------------------------------------------------- tests.test_add_task
\* The whole test method, statement by statement.  outcome is "ok",
\* "failure" (an assertion did not hold) or "error" (an exception other than
\* AssertionError); svcCalls / repoCalls are the calls made up to that point.
SvcCall(op, arg, ret) == [op |-> op, arg |-> arg, ret |-> ret]

TestResult(outcome, exc, svc, svcCalls, repoCalls, task) ==
    [outcome |-> outcome, exc |-> exc, service |-> svc,
     svcCalls |-> svcCalls, repoCalls |-> repoCalls, task |-> task]

test_add_task ==
    LET s0 == TaskService
        g1 == get_all_tasks(s0)
        c1 == <<SvcCall("get_all_tasks", NoneVal, g1.ret)>>
    IN
    IF ~Sized(g1.ret)
    THEN TestResult("error", Exception("TypeError", 308), g1.self,
                    c1, g1.calls, NoneVal)
    ELSE
    LET new_task == Task(Str("New Task"), Str("Description of the new task"))
        a  == add_task(g1.self, new_task)
        g2 == get_all_tasks(a.self)
        c2 == c1 \o <<SvcCall("add_task", new_task, a.ret),
                      SvcCall("get_all_tasks", NoneVal, g2.ret)>>
        r2 == g1.calls \o a.calls \o g2.calls
    IN
    IF ~Sized(g2.ret)
    THEN TestResult("error", Exception("TypeError", 315), g2.self,
                    c2, r2, new_task)
    ELSE IF Len(Items(g2.ret)) # Len(Items(g1.ret)) + 1
    THEN TestResult("failure", Exception("AssertionError", 316), g2.self,
                    c2, r2, new_task)
    ELSE
    LET g3 == get_all_tasks(g2.self)
        c3 == c2 \o <<SvcCall("get_all_tasks", NoneVal, g3.ret)>>
        r3 == r2 \o g3.calls
    IN
    IF ~Sized(g3.ret)
    THEN TestResult("error", Exception("TypeError", 317), g3.self,
                    c3, r3, new_task)
    ELSE IF ~Contains(g3.ret, new_task)
    THEN TestResult("failure", Exception("AssertionError", 317), g3.self,
                    c3, r3, new_task)
    ELSE TestResult("ok", NoneVal, g3.self, c3, r3, new_task)

\* ------------------------------------------------- the script's top level
\* The top-level statements of knotes.py in order.  kind is
\*   expr_str     a string literal used as a statement (no effect)
\*   def / class / assign   binds `names` in the module namespace
\*   print_name   print(<name>): reads `names`
\*   import / from_import   imports `module`, binds `names`
\*   if_main_call if __name__ == "__main__": <name>(...)
Program == <<
    [line |-> 1, kind |-> "expr_str", names |-> {}, module |-> ""],
    [line |-> 12, kind |-> "expr_str", names |-> {}, module |-> ""],
    [line |-> 23, kind |-> "expr_str", names |-> {}, module |-> ""],
    [line |-> 38, kind |-> "expr_str", names |-> {}, module |-> ""],
    [line |-> 64, kind |-> "expr_str", names |-> {}, module |-> ""],
    [line |-> 78, kind |-> "expr_str", names |-> {}, module |-> ""],
    [line |-> 89, kind |-> "expr_str", names |-> {}, module |-> ""],
    [line |-> 100, kind |-> "expr_str", names |-> {}, module |-> ""],
    [line |-> 104, kind |-> "def", names |-> {"add_numbers"}, module |-> ""],
    [line |-> 109, kind |-> "print_name", names |-> {"c"}, module |-> ""],
    [line |-> 111, kind |-> "expr_str", names |-> {}, module |-> ""],
    [line |-> 119, kind |-> "expr_str", names |-> {}, module |-> ""],
    [line |-> 128, kind |-> "expr_str", names |-> {}, module |-> ""],
    [line |-> 147, kind |-> "expr_str", names |-> {}, module |-> ""],
    [line |-> 151, kind |-> "from_import", names |-> {"start_application"}, module |-> "user_interface"],
    [line |-> 153, kind |-> "if_main_call", names |-> {"start_application"}, module |-> ""],
    [line |-> 156, kind |-> "expr_str", names |-> {}, module |-> ""],
    [line |-> 166, kind |-> "expr_str", names |-> {}, module |-> ""],
    [line |-> 170, kind |-> "class", names |-> {"TaskRepository"}, module |-> ""],
    [line |-> 180, kind |-> "expr_str", names |-> {}, module |-> ""],
    [line |-> 189, kind |-> "expr_str", names |-> {}, module |-> ""],
    [line |-> 193, kind |-> "from_import", names |-> {"TaskRepository"}, module |-> "data_access"],
    [line |-> 195, kind |-> "class", names |-> {"TaskService"}, module |-> ""],
    [line |-> 208, kind |-> "class", names |-> {"Task"}, module |-> ""],
    [line |-> 214, kind |-> "expr_str", names |-> {}, module |-> ""],
    [line |-> 224, kind |-> "expr_str", names |-> {}, module |-> ""],
    [line |-> 228, kind |-> "from_import", names |-> {"TaskService"}, module |-> "business_logic"],
    [line |-> 230, kind |-> "def", names |-> {"start_application"}, module |-> ""],
    [line |-> 257, kind |-> "expr_str", names |-> {}, module |-> ""],
    [line |-> 266, kind |-> "expr_str", names |-> {}, module |-> ""],
    [line |-> 270, kind |-> "def", names |-> {"format_date"}, module |-> ""],
    [line |-> 274, kind |-> "expr_str", names |-> {}, module |-> ""],
    [line |-> 282, kind |-> "expr_str", names |-> {}, module |-> ""],
    [line |-> 286, kind |-> "assign", names |-> {"FILENAME"}, module |-> ""],
    [line |-> 288, kind |-> "expr_str", names |-> {}, module |-> ""],
    [line |-> 296, kind |-> "expr_str", names |-> {}, module |-> ""],
    [line |-> 300, kind |-> "import", names |-> {"unittest"}, module |-> "unittest"],
    [line |-> 301, kind |-> "from_import", names |-> {"TaskService", "Task"}, module |-> "business_logic"],
    [line |-> 303, kind |-> "class", names |-> {"TestTaskService"}, module |-> ""],
    [line |-> 319, kind |-> "if_main_call", names |-> {"unittest"}, module |-> ""],
    [line |-> 322, kind |-> "expr_str", names |-> {}, module |-> ""],
    [line |-> 331, kind |-> "expr_str", names |-> {}, module |-> ""],
    [line |-> 335, kind |-> "assign", names |-> {"TASK_MAX_LENGTH"}, module |-> ""],
    [line |-> 337, kind |-> "expr_str", names |-> {}, module |-> ""],
    [line |-> 345, kind |-> "expr_str", names |-> {}, module |-> ""]
>>

\* Modules that "import" can find: the standard library's unittest.  The
\* repository has no user_interface, data_access or business_logic module.
Modules == {"unittest"}

\* Names print(...) can resolve besides those bound by the script.
Builtins == {"print", "input", "len"}

LookupName_defined(ns, n) == TRUE

LookupName(ns, n) == n \in DOMAIN ns \cup Builtins

ValueOf(ns, n) ==
    IF n \in DOMAIN ns THEN ns[n] ELSE [type |-> "builtin_function_or_method"]

Bind(ns, ns_names, v) ==
    [n \in DOMAIN ns \cup ns_names |-> IF n \in ns_names THEN v ELSE ns[n]]

BoundValue(kind) ==
    IF kind = "def" THEN [type |-> "function"]
    ELSE IF kind = "class" THEN [type |-> "type"]
    ELSE IF kind = "assign" THEN [type |-> "object"]
    ELSE [type |-> "module"]

\* --------------------------------------------------------- input domains
RECURSIVE Repeat(_, _)
Repeat(s, n) == IF n = 0 THEN "" ELSE s \o Repeat(s, n - 1)

LongText == Repeat("x", TASK_MAX_LENGTH + 1)

\* Lines the user may type at either prompt.
Lines == {"1", "2", "3", "", "4", "1 ", "buy milk", LongText}

\* Arguments a direct client passes to Task(title, description).
Titles == {Str(""), Str("New Task")}
Descriptions == {Str(""), Str("Description of the new task"), Str(LongText)}

\* ------------------------------------------------------------------ state
VARIABLES
    pc,           \* where control is: toplevel/halted/exited (script),
                  \* menu/choice/describe/returned/raised (start_application),
                  \* client (direct use of TaskService), test/tested
    stmt,         \* index in Program of the top-level statement to execute
    namespace,    \* module namespace: name -> value of the names bound so far
    exc,          \* the exception that ended execution, or NoneVal
    out,          \* what has been written to standard output, in order
    inputs,       \* the lines read from standard input, in order
    task_service, \* the TaskService instance in use, or NoneVal
    svcLog,       \* calls made on the TaskService, in order
    repoLog,      \* calls made on its TaskRepository, in order
    obj,          \* the Task most recently constructed by the client
    ctorArgs,     \* the arguments it was constructed from
    testResult    \* the result of test_add_task, or NoneVal

vars == <<pc, stmt, namespace, exc, out, inputs, task_service,
          svcLog, repoLog, obj, ctorArgs, testResult>>

\* Entry points: the file run as a script, start_application called, a
\* client holding a TaskService, and the unit test.
Init ==
    /\ pc \in {"toplevel", "menu", "client", "test"}
    /\ stmt = IF pc = "toplevel" THEN 1 ELSE 0
    /\ namespace = [n \in {} |-> NoneVal]
    /\ exc = NoneVal
    /\ out = <<>>
    /\ inputs = <<>>
    /\ task_service = IF pc \in {"menu", "client"} THEN TaskService ELSE NoneVal
    /\ svcLog = <<>>
    /\ repoLog = <<>>
    /\ obj = NoneVal
    /\ ctorArgs = <<>>
    /\ testResult = NoneVal

\* ------------------------------------------------ top-level statements
\* Execute Program[stmt].  An uncaught exception ends the script (halted).
ExecStatement ==
    /\ pc = "toplevel"
    /\ stmt \in 1..Len(Program)
    /\ LET s == Program[stmt]
           next == IF stmt = Len(Program) THEN "exited" ELSE "toplevel"
           resolved == \A n \in s.names : LookupName(namespace, n)
           Advance == /\ pc' = next
                      /\ stmt' = stmt + 1
                      /\ exc' = NoneVal
           Raise(kind) == /\ pc' = "halted"
                          /\ stmt' = stmt
                          /\ exc' = Exception(kind, s.line)
                          /\ UNCHANGED <<namespace, out, task_service>>
       IN  CASE s.kind = "expr_str" ->
                  /\ Advance
                  /\ UNCHANGED <<namespace, out, task_service>>
             [] s.kind \in {"def", "class", "assign"} ->
                  /\ Advance
                  /\ namespace' = Bind(namespace, s.names, BoundValue(s.kind))
                  /\ UNCHANGED <<out, task_service>>
             [] s.kind = "print_name" ->
                  IF resolved
                  THEN /\ Advance
                       /\ out' = Append(out,
                            Format(ValueOf(namespace, CHOOSE n \in s.names : TRUE)))
                       /\ UNCHANGED <<namespace, task_service>>
                  ELSE Raise("NameError")
             [] s.kind \in {"import", "from_import"} ->
                  IF s.module \in Modules
                  THEN /\ Advance
                       /\ namespace' = Bind(namespace, s.names, BoundValue(s.kind))
                       /\ UNCHANGED <<out, task_service>>
                  ELSE Raise("ModuleNotFoundError")
             [] s.kind = "if_main_call" ->
                  IF ~resolved
                  THEN Raise("NameError")
                  ELSE /\ stmt' = stmt
                       /\ exc' = NoneVal
                       /\ UNCHANGED <<namespace, out>>
                       /\ IF "start_application" \in s.names
                          THEN pc' = "menu" /\ task_service' = TaskService
                          ELSE pc' = "test" /\ task_service' = task_service
    /\ UNCHANGED <<inputs, svcLog, repoLog, obj, ctorArgs, testResult>>

\* ------------------------------------------ user_interface.start_application
Menu == <<"Task Management Application", "1. View Tasks", "2. Add Task",
          "3. Quit", "Enter your choice: ">>

\* The if / elif chain on the choice read.
Branch_stripping(choice) ==
    IF choice \in {"1", "1 "} THEN "view"
    ELSE IF choice = "2" THEN "add"
    ELSE IF choice = "3" THEN "quit"
    ELSE "invalid"

Branch(choice) ==
    IF choice = "1" THEN "view"
    ELSE IF choice = "2" THEN "add"
    ELSE IF choice = "3" THEN "quit"
    ELSE "invalid"

TaskLines(tasks) == [i \in 1..Len(Items(tasks)) |-> "- " \o Format(Items(tasks)[i])]

\* Top of the loop: print the menu and prompt for the choice.
PrintMenu ==
    /\ pc = "menu"
    /\ out' = out \o Menu
    /\ pc' = "choice"
    /\ UNCHANGED <<stmt, namespace, exc, inputs, task_service, svcLog,
                   repoLog, obj, ctorArgs, testResult>>

\* input() returns `line` as the choice; run the chosen branch up to the
\* next point where the loop waits for input, returns or raises.
ReadChoice(line) ==
    /\ pc = "choice"
    /\ Len(inputs) < MaxInputs
    /\ inputs' = Append(inputs, line)
    /\ LET choice == line
           g == get_all_tasks(task_service)
       IN  CASE Branch(choice) = "view" ->
                  /\ task_service' = g.self
                  /\ svcLog' = Append(svcLog, SvcCall("get_all_tasks", NoneVal, g.ret))
                  /\ repoLog' = repoLog \o g.calls
                  /\ IF Sized(g.ret)
                     THEN /\ out' = (out \o <<"Tasks: ">>) \o TaskLines(g.ret)
                          /\ pc' = "menu"
                          /\ exc' = exc
                     ELSE /\ out' = Append(out, "Tasks: ")
                          /\ pc' = "raised"
                          /\ exc' = Exception("TypeError", 245)
             [] Branch(choice) = "add" ->
                  /\ out' = Append(out, "Enter task description: ")
                  /\ pc' = "describe"
                  /\ UNCHANGED <<exc, task_service, svcLog, repoLog>>
             [] Branch(choice) = "quit" ->
                  /\ out' = Append(out, "Exiting the application. Goodbye!")
                  /\ pc' = "returned"
                  /\ UNCHANGED <<exc, task_service, svcLog, repoLog>>
             [] Branch(choice) = "invalid" ->
                  /\ out' = Append(out, "Invalid Choice. Please try again.")
                  /\ pc' = "menu"
                  /\ UNCHANGED <<exc, task_service, svcLog, repoLog>>
    /\ UNCHANGED <<stmt, namespace, obj, ctorArgs, testResult>>

\* input() returns `line` as the task description (choice "2", continued).
ReadDescription_stripping(line) ==
    /\ pc = "describe"
    /\ Len(inputs) < MaxInputs
    /\ inputs' = Append(inputs, line)
    /\ LET new_task == Str(IF line = "1 " THEN "1" ELSE line)
           a == add_task(task_service, new_task)
       IN  /\ task_service' = a.self
           /\ svcLog' = Append(svcLog, SvcCall("add_task", new_task, a.ret))
           /\ repoLog' = repoLog \o a.calls
    /\ out' = Append(out, "Task added successfully")
    /\ pc' = "menu"
    /\ UNCHANGED <<stmt, namespace, exc, obj, ctorArgs, testResult>>

ReadDescription(line) ==
    /\ pc = "describe"
    /\ Len(inputs) < MaxInputs
    /\ inputs' = Append(inputs, line)
    /\ LET new_task == Str(line)
           a == add_task(task_service, new_task)
       IN  /\ task_service' = a.self
           /\ svcLog' = Append(svcLog, SvcCall("add_task", new_task, a.ret))
           /\ repoLog' = repoLog \o a.calls
    /\ out' = Append(out, "Task added successfully")
    /\ pc' = "menu"
    /\ UNCHANGED <<stmt, namespace, exc, obj, ctorArgs, testResult>>

\* input() finds standard input at end of file and raises EOFError.
ReadEOF ==
    /\ pc \in {"choice", "describe"}
    /\ pc' = "raised"
    /\ exc' = Exception("EOFError", IF pc = "choice" THEN 240 ELSE 248)
    /\ UNCHANGED <<stmt, namespace, out, inputs, task_service, svcLog,
                   repoLog, obj, ctorArgs, testResult>>

\* ----------------------------------------------- a client of TaskService
ConstructTask(title, description) ==
    /\ pc = "client"
    /\ obj' = Task(title, description)
    /\ ctorArgs' = <<title, description>>
    /\ UNCHANGED <<pc, stmt, namespace, exc, out, inputs, task_service,
                   svcLog, repoLog, testResult>>

ClientGetAllTasks ==
    /\ pc = "client"
    /\ Len(svcLog) < MaxCalls
    /\ LET g == get_all_tasks(task_service)
       IN  /\ task_service' = g.self
           /\ svcLog' = Append(svcLog, SvcCall("get_all_tasks", NoneVal, g.ret))
           /\ repoLog' = repoLog \o g.calls
    /\ UNCHANGED <<pc, stmt, namespace, exc, out, inputs, obj, ctorArgs,
                   testResult>>

ClientAddTask ==
    /\ pc = "client"
    /\ obj # NoneVal
    /\ Len(svcLog) < MaxCalls
    /\ LET a == add_task(task_service, obj)
       IN  /\ task_service' = a.self
           /\ svcLog' = Append(svcLog, SvcCall("add_task", obj, a.ret))
           /\ repoLog' = repoLog \o a.calls
    /\ UNCHANGED <<pc, stmt, namespace, exc, out, inputs, obj, ctorArgs,
                   testResult>>

\* --------------------------------------------------------- the unit test
RunTest ==
    /\ pc = "test"
    /\ LET r == test_add_task
       IN  /\ testResult' = [outcome |-> r.outcome, task |-> r.task]
           /\ exc' = r.exc
           /\ task_service' = r.service
           /\ svcLog' = svcLog \o r.svcCalls
           /\ repoLog' = repoLog \o r.repoCalls
    /\ pc' = "tested"
    /\ UNCHANGED <<stmt, namespace, out, inputs, obj, ctorArgs>>

Next ==
    \/ ExecStatement
    \/ PrintMenu
    \/ \E line \in Lines : ReadChoice(line)
    \/ \E line \in Lines : ReadDescription(line)
    \/ ReadEOF
    \/ \E title \in Titles, description \in Descriptions :
          ConstructTask(title, description)
    \/ ClientGetAllTasks
    \/ ClientAddTask
    \/ RunTest

Spec == Init /\ [][Next]_vars

\* ------------------------------------------------------------ properties
\* A line was read at the choice prompt in this step.
ChoiceRead == pc = "choice" /\ Len(inputs') = Len(inputs) + 1

\* A line was read at the description prompt in this step.
DescriptionRead == pc = "describe" /\ Len(inputs') = Len(inputs) + 1

\* From the top of the loop the only step is to print the menu and wait at
\* the choice prompt.
MenuAgain ==
    pc = "menu" => out' = out \o Menu /\ pc' = "choice" /\ inputs' = inputs

\* C1: after add_task(t) the number of tasks returned by get_all_tasks() is
\* exactly one more than the number returned immediately before the call.
AddTaskIncrementsCount ==
    \A i \in 2..(Len(svcLog) - 1) :
        (/\ svcLog[i].op = "add_task"
         /\ svcLog[i - 1].op = "get_all_tasks"
         /\ svcLog[i + 1].op = "get_all_tasks")
        => /\ Sized(svcLog[i - 1].ret)
           /\ Sized(svcLog[i + 1].ret)
           /\ Len(Items(svcLog[i + 1].ret)) = Len(Items(svcLog[i - 1].ret)) + 1

\* C2: after add_task(t) the collection returned by get_all_tasks()
\* contains t.
AddedTaskIsReturned ==
    \A i \in 1..(Len(svcLog) - 1) :
        (svcLog[i].op = "add_task" /\ svcLog[i + 1].op = "get_all_tasks")
        => /\ Sized(svcLog[i + 1].ret)
           /\ Contains(svcLog[i + 1].ret, svcLog[i].arg)

\* C3: a choice other than "1", "2" or "3" prints "Invalid Choice. Please
\* try again.", makes no call on the service or the repository, and goes
\* back to the top of the loop, which prints the menu and prompts again.
InvalidChoiceReprompts ==
    [][ /\ (ChoiceRead /\ Last(inputs') \notin {"1", "2", "3"})
           => /\ out' = Append(out, "Invalid Choice. Please try again.")
              /\ svcLog' = svcLog
              /\ repoLog' = repoLog
              /\ task_service' = task_service
              /\ pc' = "menu"
        /\ MenuAgain ]_vars

InvalidChoiceRepromptsWitness ==
    /\ pc = "choice"
    /\ Len(inputs) >= 1
    /\ Last(inputs) \notin {"1", "2", "3"}
    /\ Len(out) > Len(Menu) + 1
    /\ out[Len(out) - Len(Menu)] = "Invalid Choice. Please try again."
    /\ SubSeq(out, Len(out) - Len(Menu) + 1, Len(out)) = Menu

\* C4: choice "3" prints "Exiting the application. Goodbye!" and returns;
\* after any other choice the loop is still running, so start_application
\* leaves the loop only on a choice "3".
OnlyQuitLeavesLoop ==
    [][ ChoiceRead =>
          IF Last(inputs') = "3"
          THEN /\ out' = Append(out, "Exiting the application. Goodbye!")
               /\ pc' = "returned"
          ELSE pc' \in {"menu", "describe"} ]_vars

\* C5: after choice "2" exactly one further line is read, add_task is called
\* exactly once with that line unchanged, "Task added successfully" is
\* printed, and the loop goes back to print the menu and prompt again.
AddChoiceAddsLineUnchanged ==
    [][ /\ (ChoiceRead /\ Last(inputs') = "2")
           => /\ pc' = "describe"
              /\ svcLog' = svcLog
              /\ repoLog' = repoLog
        /\ DescriptionRead
           => /\ svcLog' = Append(svcLog,
                     SvcCall("add_task", Str(Last(inputs')), NoneVal))
              /\ out' = Append(out, "Task added successfully")
              /\ pc' = "menu"
        /\ (pc = "describe" /\ pc' = "menu") => DescriptionRead
        /\ MenuAgain ]_vars

AddChoiceAddsLineUnchangedWitness ==
    /\ pc = "choice"
    /\ Len(inputs) = 3
    /\ inputs[1] = "2" /\ inputs[2] = "1 " /\ inputs[3] = "4"
    /\ Len(svcLog) = 1
    /\ svcLog[1] = SvcCall("add_task", Str("1 "), NoneVal)

\* C6: choice "1" prints "Tasks: " and one line "- <task>" per task returned
\* by get_all_tasks(), and the loop continues without error.
ViewChoiceListsTasks ==
    [][ (ChoiceRead /\ Last(inputs') = "1")
          => /\ Len(svcLog') = Len(svcLog) + 1
             /\ Last(svcLog').op = "get_all_tasks"
             /\ Sized(Last(svcLog').ret)
             /\ out' = (out \o <<"Tasks: ">>) \o TaskLines(Last(svcLog').ret)
             /\ exc' = NoneVal
             /\ pc' = "menu" ]_vars

\* C7: TaskService is a pass-through: each service call makes exactly one
\* repository call with the same argument and returns what the repository
\* returned, and the calls leave the repository as the same calls made on
\* it directly would.
Forward(c) ==
    RepoCall(IF c.op = "get_all_tasks" THEN "get_tasks" ELSE "save_task",
             c.arg, c.ret)

Forwarded == [i \in 1..Len(svcLog) |-> Forward(svcLog[i])]

RECURSIVE Replay(_, _)
Replay(repo, calls) ==
    IF calls = <<>> THEN [self |-> repo, rets |-> <<>>]
    ELSE LET c == Head(calls)
             r == IF c.op = "get_tasks" THEN get_tasks(repo)
                  ELSE save_task(repo, c.arg)
             rest == Replay(r.self, Tail(calls))
         IN  [self |-> rest.self, rets |-> <<r.ret>> \o rest.rets]

ServiceIsPassThrough ==
    task_service # NoneVal =>
        LET direct == Replay(TaskRepository, Forwarded)
        IN  /\ repoLog = Forwarded
            /\ direct.rets = [i \in 1..Len(svcLog) |-> svcLog[i].ret]
            /\ direct.self = task_service.task_repository

ServiceIsPassThroughWitness ==
    /\ pc = "client"
    /\ Len(svcLog) = 3
    /\ svcLog[1].op = "add_task"
    /\ svcLog[2].op = "add_task" /\ svcLog[2].arg = svcLog[1].arg
    /\ svcLog[3].op = "get_all_tasks"

\* C8: Task(title, description) is never rejected and holds exactly the two
\* arguments, also when the description is longer than TASK_MAX_LENGTH.
TaskHoldsItsArguments ==
    ctorArgs # <<>> =>
        /\ obj.type = "Task"
        /\ obj.title = ctorArgs[1]
        /\ obj.description = ctorArgs[2]

TaskHoldsItsArgumentsWitness ==
    /\ ctorArgs # <<>>
    /\ Len(ctorArgs[2].value) > TASK_MAX_LENGTH
    /\ obj.type = "Task"
    /\ Len(obj.description.value) > TASK_MAX_LENGTH

PrintC == CHOOSE i \in 1..Len(Program) : Program[i].kind = "print_name"

ScriptStopsAtPrintC ==
    stmt > 0 =>
        /\ stmt <= PrintC
        /\ pc \in {"toplevel", "halted"}
        /\ out = <<>>
        /\ task_service = NoneVal
        /\ stmt = PrintC => DOMAIN namespace = {"add_numbers"}
        /\ pc = "halted" => stmt = PrintC /\ exc = Exception("NameError", 109)

ScriptStopsAtPrintCWitness ==
    /\ pc = "halted"
    /\ stmt = PrintC
    /\ Program[stmt].line = 109
    /\ exc.type = "NameError"

====
